---- MODULE Spec2Model ----
(***************************************************************************)
(* Model of architect/orms/decorators.py: the install and uninstall        *)
(* decorators, the method interception they perform on a model class, and  *)
(* the Architect descriptor that builds the per-class "architect"          *)
(* namespace on first access.                                              *)
(***************************************************************************)
EXTENDS Naturals, Sequences, FiniteSets, TLC

\* Number of Architect descriptors (successful install calls) a behaviour may create.
MaxDesc == 2

\* Number of descriptors created before the concurrent accesses of SpecGet.
MaxGetDesc == 1

\* Number of namespace accesses each concurrent caller of SpecGet makes.
MaxAccess == 1

\* The number of install / uninstall calls started by the concurrent callers.
MaxCalls == 2

(***************************************************************************)
(* The model classes, their methods and the feature registry.              *)
(***************************************************************************)

\* Two model classes; Sub is a subclass of Base.
Classes == {"Base", "Sub"}

\* The method resolution order of a model class.
MRO(c) == IF c = "Sub" THEN <<"Sub", "Base">> ELSE <<c>>

Methods == {"m1", "m2", "m3"}

\* The receiver of a namespace access: the class itself (None) or an instance.
Objs == {"None", "a", "b"}

\* The receivers of the accesses made between install and uninstall calls.
Receivers == {"None"}

\* A function object: the pristine function fn with the stack of wrappers applied to it
\* (innermost first). The absent attribute is NoImpl.
NoImpl == [fn |-> <<>>, wraps |-> <<>>]

Pristine(c, name) == [fn |-> <<c, name>>, wraps |-> <<>>]

\* The methods each class body defines: Base defines m1 and m2, Sub adds m3.
ClassBody ==
  [c \in Classes |->
     [name \in Methods |->
        IF (c = "Base" /\ name \in {"m1", "m2"}) \/ (c = "Sub" /\ name = "m3")
        THEN Pristine(c, name) ELSE NoImpl]]

\* The features registry of the ORM: feature name -> feature class, with the
\* class attributes decorate and dependencies. "X" is not registered.
registry ==
  [f \in {"F", "A", "D", "G", "H"} |->
     CASE f = "F" -> [decorate |-> <<"m1">>, dependencies |-> <<"A", "D">>]
       [] f = "A" -> [decorate |-> <<"m2">>, dependencies |-> <<"D">>]
       [] f = "D" -> [decorate |-> <<"m1">>, dependencies |-> <<>>]
       [] f = "G" -> [decorate |-> <<"m2", "m3", "m1">>, dependencies |-> <<>>]
       [] f = "H" -> [decorate |-> <<"m1">>, dependencies |-> <<"D", "X">>]]

\* The feature names a caller may ask for.
FeatureNames == DOMAIN registry \cup {"X"}

\* The keyword options a caller may pass to install.
OptionSets == {{"db", "type"}}

(***************************************************************************)
(* State                                                                   *)
(***************************************************************************)
VARIABLES
  own,     \* own[c][name]: the attribute name in the __dict__ of class c
  arch,    \* arch[c]: the Architect descriptor in the __dict__ of class c
  ndesc,   \* number of Architect descriptors created so far
  pc,      \* pc[t]: position of thread t inside Architect.__get__
  loc      \* loc[t]: the arguments and the return value of thread t's __get__

vars == <<own, arch, ndesc, pc, loc>>

Threads == {"t1", "t2"}

\* An entry of Architect.map: absent, or {'features': {...}} with or without the
\* 'architect' key (the view class, built by viewBy).
NoEntry == [present |-> FALSE, features |-> {}, hasView |-> FALSE, view |-> {},
            viewBy |-> "", model_obj |-> [i \in {} |-> "None"]]

\* No Architect descriptor in the class __dict__.
NoDesc == [id |-> 0, features |-> {}, map |-> [c \in Classes |-> NoEntry]]

(***************************************************************************)
(* Attribute lookup                                                        *)
(***************************************************************************)

\* getattr(model, name): the first class of the MRO that has the attribute.
RECURSIVE LookupFrom(_, _, _, _)
LookupFrom(o, mro, i, name) ==
  IF i > Len(mro) THEN NoImpl
  ELSE IF o[mro[i]][name] # NoImpl THEN o[mro[i]][name]
  ELSE LookupFrom(o, mro, i + 1, name)

getattr(o, model, name) == LookupFrom(o, MRO(model), 1, name)

is_decorated(impl) == Len(impl.wraps) > 0

\* decorated.original: the function the wrapper was made from.
original_of(impl) == [impl EXCEPT !.wraps = SubSeq(impl.wraps, 1, Len(impl.wraps) - 1)]

\* The class whose __dict__ holds the architect descriptor that model resolves to.
RECURSIVE OwnerFrom(_, _, _)
OwnerFrom(ar, mro, i) ==
  IF i > Len(mro) THEN "none"
  ELSE IF ar[mro[i]].id # 0 THEN mro[i]
  ELSE OwnerFrom(ar, mro, i + 1)

Owner(ar, model) == OwnerFrom(ar, MRO(model), 1)

hasattr_architect(ar, model) == Owner(ar, model) # "none"

(***************************************************************************)
(* Architect: the descriptor that serves the "architect" namespace         *)
(***************************************************************************)

\* A feature object built by options['class'](model_obj, model_cls, **options['options']).
\* Every construction yields a new object: did is the descriptor that built it,
\* cls the class it was built for and by the caller that built it.
FeatureObj(rec, did, cls, by) ==
  [name |-> rec.name, options |-> rec.options, did |-> did, cls |-> cls, by |-> by]

\* d[key] = value on a dict of feature objects keyed by feature name.
PutFeature(S, obj) == {i \in S : i.name # obj.name} \cup {obj}

\* The feature objects of an entry get obj as their model_obj.
Notify(e, obj) ==
  [e EXCEPT !.model_obj = [i \in DOMAIN e.model_obj |->
                             IF i \in e.features THEN obj ELSE e.model_obj[i]]]

\* The entry Architect.__get__ builds for a class on its first access.
BuildEntry(d, model_obj, model_cls, by) ==
  LET objs == {FeatureObj(r, d.id, model_cls, by) : r \in d.features}
  IN [present |-> TRUE, features |-> objs, hasView |-> TRUE, view |-> objs,
      viewBy |-> by, model_obj |-> [i \in objs |-> model_obj]]

\* Architect.__get__(self, model_obj, model_cls) run without interruption:
\* the descriptor afterwards.
Architect_get(d, model_obj, model_cls, by) ==
  LET e0 == IF d.map[model_cls].present THEN d.map[model_cls]
            ELSE BuildEntry(d, model_obj, model_cls, by)
      e1 == IF model_obj # "None" THEN Notify(e0, model_obj) ELSE e0
  IN [d EXCEPT !.map[model_cls] = e1]

\* model.architect evaluated on the class: the descriptors afterwards.
AccessArchitect(ar, model, obj, by) ==
  LET o == Owner(ar, model)
  IN IF o = "none" THEN ar
     ELSE [ar EXCEPT ![o] = Architect_get(ar[o], obj, model, by)]

\* The class 'Architect' that model.architect returns, as the feature objects in its
\* __dict__ (once AccessArchitect has run).
ViewOf(ar, model) ==
  LET o == Owner(ar, model)
  IN IF o = "none" THEN {} ELSE ar[o].map[model].view

ObjNames(S) == {i.name : i \in S}

(***************************************************************************)
(* install                                                                 *)
(***************************************************************************)

\* The state an install call works on: the class attributes, the install object's
\* features dict, the exception raised (if any) and the slots it has set.
InstallState(o) ==
  [own |-> o, features |-> {}, err |-> "ok", errName |-> "", errFeature |-> "",
   errIdx |-> 0, touched |-> {}]

\* self.features[name] = {...}: insert or replace the record of that name.
PutRecord(S, rec) == {r \in S : r.name # rec.name} \cup {rec}

\* DecorateOne with the wrapper set on the class that defines the method instead of
\* on the model.
DecorateOne_onDefiner(st, feature, model, i) ==
  LET name == registry[feature].decorate[i]
      cur == getattr(st.own, model, name)
  IN IF cur = NoImpl
     THEN [st EXCEPT !.err = "MethodAutoDecorateError", !.errName = name,
                     !.errFeature = feature, !.errIdx = i]
     ELSE LET original == IF is_decorated(cur) THEN original_of(cur) ELSE cur
              decorated == [original EXCEPT !.wraps = Append(original.wraps, feature)]
          IN [st EXCEPT !.own[original.fn[1]][name] = decorated,
                        !.touched = st.touched \cup {name}]

\* DecorateOne that wraps the method it finds, decorated or not.
DecorateOne_nested(st, feature, model, i) ==
  LET name == registry[feature].decorate[i]
      cur == getattr(st.own, model, name)
  IN IF cur = NoImpl
     THEN [st EXCEPT !.err = "MethodAutoDecorateError", !.errName = name,
                     !.errFeature = feature, !.errIdx = i]
     ELSE LET decorated == [cur EXCEPT !.wraps = Append(cur.wraps, feature)]
          IN [st EXCEPT !.own[model][name] = decorated,
                        !.touched = st.touched \cup {name}]

\* One pass of the loop "for name in feature_cls.decorate" of init_feature.
DecorateOne(st, feature, model, i) ==
  LET name == registry[feature].decorate[i]
      cur == getattr(st.own, model, name)
  IN IF cur = NoImpl
     THEN [st EXCEPT !.err = "MethodAutoDecorateError", !.errName = name,
                     !.errFeature = feature, !.errIdx = i]
     ELSE LET original == IF is_decorated(cur) THEN original_of(cur) ELSE cur
              decorated == [original EXCEPT !.wraps = Append(original.wraps, feature)]
          IN [st EXCEPT !.own[model][name] = decorated,
                        !.touched = st.touched \cup {name}]

RECURSIVE DecorateLoop(_, _, _, _)
DecorateLoop(st, feature, model, i) ==
  IF st.err # "ok" \/ i > Len(registry[feature].decorate) THEN st
  ELSE DecorateLoop(DecorateOne(st, feature, model, i), feature, model, i + 1)

\* RecordedOptions that gives every feature the options of the call.
RecordedOptions_all(feature, requested, options) == options

\* The options init_feature records for a feature: the options of the call for the
\* requested feature, and only the 'db' option for its dependencies.
RecordedOptions(feature, requested, options) ==
  IF feature = requested THEN options ELSE options \cap {"db"}

\* InitDependencies that installs no dependency.
InitDependencies_none(st, deps, i, model, requested, options) == st

RECURSIVE init_feature(_, _, _, _, _)
RECURSIVE InitDependencies(_, _, _, _, _, _)

\* init_feature that initializes the dependencies before the feature itself.
init_feature_depsFirst(st, feature, model, requested, options) ==
  IF st.err # "ok" THEN st
  ELSE IF feature \notin DOMAIN registry
  THEN [st EXCEPT !.err = "FeatureInstallError", !.errName = feature,
                  !.errFeature = feature]
  ELSE LET s0 == InitDependencies(st, registry[feature].dependencies, 1, model,
                                  requested, options)
           s1 == DecorateLoop(s0, feature, model, 1)
       IN IF s1.err # "ok" THEN s1
          ELSE LET rec == [name |-> feature,
                           options |-> RecordedOptions(feature, requested, options)]
               IN [s1 EXCEPT !.features = PutRecord(s1.features, rec)]

\* install.init_feature(feature, model, features_registry)
init_feature(st, feature, model, requested, options) ==
  IF st.err # "ok" THEN st
  ELSE IF feature \notin DOMAIN registry
  THEN [st EXCEPT !.err = "FeatureInstallError", !.errName = feature,
                  !.errFeature = feature]
  ELSE LET s1 == DecorateLoop(st, feature, model, 1)
       IN IF s1.err # "ok" THEN s1
          ELSE LET rec == [name |-> feature,
                           options |-> RecordedOptions(feature, requested, options)]
                   s2 == [s1 EXCEPT !.features = PutRecord(s1.features, rec)]
               IN InitDependencies(s2, registry[feature].dependencies, 1, model,
                                   requested, options)

InitDependencies(st, deps, i, model, requested, options) ==
  IF st.err # "ok" \/ i > Len(deps) THEN st
  ELSE InitDependencies(init_feature(st, deps[i], model, requested, options),
                        deps, i + 1, model, requested, options)

\* GatherInstalled that gathers nothing.
GatherInstalled_none(ar, model, features) == features

\* GatherInstalled that also gathers the features the call has set itself.
GatherInstalled_all(ar, model, features) ==
  features \cup {[name |-> i.name, options |-> i.options] : i \in ViewOf(ar, model)}

\* The features already in the namespace of the model that the call did not set itself.
GatherInstalled(ar, model, features) ==
  features \cup {[name |-> i.name, options |-> i.options] :
                   i \in {j \in ViewOf(ar, model) : j.name \notin {r.name : r \in features}}}

\* Architect(self.features): a new descriptor with an empty map.
NewArchitect(id, features) ==
  [id |-> id, features |-> features, map |-> [c \in Classes |-> NoEntry]]

\* The feature names an access to the namespace of model yields in this state.
Namespace(ar, model) ==
  LET o == Owner(ar, model)
  IN IF o = "none" THEN {}
     ELSE IF ar[o].map[model].present THEN ObjNames(ar[o].map[model].view)
     ELSE {r.name : r \in ar[o].features}

\* The methods visible on a class.
Slots(o, model) == [name \in Methods |-> getattr(o, model, name)]

\* InstallResult that sets the new descriptor even when init_feature raised.
InstallResult_commit(o, ar, n, model, feature, options) ==
  LET st == init_feature(InstallState(o), feature, model, feature, options)
      ar1 == AccessArchitect(ar, model, "None", "main")
      features == IF hasattr_architect(ar, model)
                  THEN GatherInstalled(ar1, model, st.features)
                  ELSE st.features
  IN [own |-> st.own,
      arch |-> [ar1 EXCEPT ![model] = NewArchitect(n + 1, features)],
      ndesc |-> n + 1, err |-> st.err, errName |-> st.errName,
      errFeature |-> st.errFeature, errIdx |-> st.errIdx, touched |-> st.touched]

\* install(feature, **options)(model): the class attributes, the descriptors and the
\* exception (err) the call ends with.
InstallResult(o, ar, n, model, feature, options) ==
  LET st == init_feature(InstallState(o), feature, model, feature, options)
  IN IF st.err # "ok"
     THEN [own |-> st.own, arch |-> ar, ndesc |-> n, err |-> st.err,
           errName |-> st.errName, errFeature |-> st.errFeature, errIdx |-> st.errIdx,
           touched |-> st.touched]
     ELSE LET ar1 == AccessArchitect(ar, model, "None", "main")
              features == IF hasattr_architect(ar, model)
                          THEN GatherInstalled(ar1, model, st.features)
                          ELSE st.features
          IN [own |-> st.own,
              arch |-> [ar1 EXCEPT ![model] = NewArchitect(n + 1, features)],
              ndesc |-> n + 1, err |-> "ok", errName |-> "", errFeature |-> "",
              errIdx |-> 0, touched |-> st.touched]

Install(model, feature, options) ==
  LET r == InstallResult(own, arch, ndesc, model, feature, options)
  IN /\ own' = r.own
     /\ arch' = r.arch
     /\ ndesc' = r.ndesc

(***************************************************************************)
(* uninstall                                                               *)
(***************************************************************************)

\* The state an uninstall call works on.
UninstallState(o, ar) ==
  [own |-> o, arch |-> ar, err |-> "ok", errName |-> "", allowed |-> {}]

\* RestoreMethods that sets the method itself instead of method.original.
RestoreMethods_keep(o, model) ==
  [o EXCEPT ![model] =
     [name \in Methods |->
        IF is_decorated(getattr(o, model, name))
        THEN getattr(o, model, name)
        ELSE o[model][name]]]

\* RestoreMethods that looks only at the model's own __dict__, not at inherited methods.
RestoreMethods_ownOnly(o, model) ==
  [o EXCEPT ![model] =
     [name \in Methods |->
        IF is_decorated(o[model][name])
        THEN original_of(o[model][name])
        ELSE o[model][name]]]

\* The loop over inspect.getmembers(model, ...): every decorated method visible on
\* the model is set to its original in the model's own __dict__.
RestoreMethods(o, model) ==
  [o EXCEPT ![model] =
     [name \in Methods |->
        IF is_decorated(getattr(o, model, name))
        THEN original_of(getattr(o, model, name))
        ELSE o[model][name]]]

\* delattr(model.architect, feature): the name leaves the __dict__ of the view class.
DelFeature(ar, model, feature) ==
  LET o == Owner(ar, model)
  IN [ar EXCEPT ![o].map[model].view = {i \in @ : i.name # feature}]

\* uninstall.deinit_feature(feature, model)
RECURSIVE deinit_feature(_, _, _)
RECURSIVE DeinitDependencies(_, _, _, _)
deinit_feature(st, feature, model) ==
  IF st.err # "ok" THEN st
  ELSE IF ~hasattr_architect(st.arch, model)
  THEN \* model.architect raises AttributeError again inside the except clause
       [st EXCEPT !.err = "AttributeError", !.errName = "architect"]
  ELSE LET ar1 == AccessArchitect(st.arch, model, "None", "main")
       IN IF feature \notin ObjNames(ViewOf(ar1, model))
          THEN [st EXCEPT !.arch = ar1, !.err = "FeatureUninstallError",
                          !.errName = feature,
                          !.allowed = ObjNames(ViewOf(ar1, model))]
          ELSE LET s1 == [st EXCEPT !.own = RestoreMethods(st.own, model),
                                    !.arch = DelFeature(ar1, model, feature)]
               IN DeinitDependencies(s1, registry[feature].dependencies, 1, model)

DeinitDependencies(st, deps, i, model) ==
  IF st.err # "ok" \/ i > Len(deps) THEN st
  ELSE DeinitDependencies(deinit_feature(st, deps[i], model), deps, i + 1, model)

\* uninstall(feature)(model): the class attributes, the descriptors and the exception
\* (err, with the names it lists) the call ends with.
UninstallResult(o, ar, model, feature) ==
  deinit_feature(UninstallState(o, ar), feature, model)

Uninstall(model, feature) ==
  LET r == UninstallResult(own, arch, model, feature)
  IN /\ own' = r.own
     /\ arch' = r.arch
     /\ UNCHANGED ndesc

(***************************************************************************)
(* Access to the namespace by one caller                                   *)
(***************************************************************************)

\* model.architect (obj = None) or instance.architect, when the class has the attribute.
Get(model, obj) ==
  /\ hasattr_architect(arch, model)
  /\ arch' = AccessArchitect(arch, model, obj, "main")
  /\ UNCHANGED <<own, ndesc>>

NoLocals == [cls |-> "Base", obj |-> "None", owner |-> "Base", todo |-> {},
             err |-> "ok", ret |-> {}, retBy |-> "", n |-> 0]

Init ==
  /\ own = ClassBody
  /\ arch = [c \in Classes |-> NoDesc]
  /\ ndesc = 0
  /\ pc = [t \in Threads |-> "idle"]
  /\ loc = [t \in Threads |-> NoLocals]

InstallCall ==
  \E model \in Classes, feature \in FeatureNames, options \in OptionSets :
    /\ ndesc < MaxDesc
    /\ Install(model, feature, options)
    /\ UNCHANGED <<pc, loc>>

UninstallCall ==
  \E model \in Classes, feature \in FeatureNames :
    /\ Uninstall(model, feature)
    /\ UNCHANGED <<pc, loc>>

GetCall ==
  \E model \in Classes, obj \in Receivers :
    /\ Get(model, obj)
    /\ UNCHANGED <<pc, loc>>

Next == InstallCall \/ UninstallCall \/ GetCall

Spec == Init /\ [][Next]_vars

(***************************************************************************)
(* Architect.__get__ run by concurrent callers, one statement at a time    *)
(***************************************************************************)

\* The entry of the class thread t is accessing, in the descriptor it resolved.
EntryOf(t) == arch[loc[t].owner].map[loc[t].cls]

\* A caller evaluates model.architect (obj = None) or instance.architect.
GetBegin(t, model, obj) ==
  /\ pc[t] = "idle"
  /\ loc[t].n < MaxAccess
  /\ hasattr_architect(arch, model)
  /\ pc' = [pc EXCEPT ![t] = "check"]
  /\ loc' = [loc EXCEPT ![t] = [NoLocals EXCEPT !.cls = model, !.obj = obj,
                                                !.owner = Owner(arch, model),
                                                !.n = loc[t].n + 1]]
  /\ UNCHANGED <<own, arch, ndesc>>

\* if model_cls not in self.map
GetCheck(t) ==
  /\ pc[t] = "check"
  /\ pc' = [pc EXCEPT ![t] = IF EntryOf(t).present THEN "notify" ELSE "init"]
  /\ UNCHANGED <<own, arch, ndesc, loc>>

\* self.map[model_cls] = {'features': {}}
GetInit(t) ==
  /\ pc[t] = "init"
  /\ arch' = [arch EXCEPT ![loc[t].owner].map[loc[t].cls] =
                [NoEntry EXCEPT !.present = TRUE]]
  /\ loc' = [loc EXCEPT ![t].todo = arch[loc[t].owner].features]
  /\ pc' = [pc EXCEPT ![t] = "build"]
  /\ UNCHANGED <<own, ndesc>>

\* One pass of "for feature, options in self.features.items()": the feature object
\* is built and stored in the entry the map holds now. The order of a dict's items
\* is not fixed across the Python versions the code runs on.
GetBuild(t) ==
  /\ pc[t] = "build"
  /\ \E rec \in loc[t].todo :
     LET obj == FeatureObj(rec, arch[loc[t].owner].id, loc[t].cls, t)
         e == EntryOf(t)
     IN /\ arch' = [arch EXCEPT ![loc[t].owner].map[loc[t].cls] =
                      [e EXCEPT !.features = PutFeature(e.features, obj),
                                !.model_obj = [i \in (DOMAIN e.model_obj \cup {obj}) |->
                                                 IF i = obj THEN loc[t].obj
                                                 ELSE e.model_obj[i]]]]
        /\ loc' = [loc EXCEPT ![t].todo = @ \ {rec}]
  /\ UNCHANGED <<own, ndesc, pc>>

\* self.map[model_cls]['architect'] = type('Architect', (object,), dict(features, ...))
GetView(t) ==
  /\ pc[t] = "build"
  /\ loc[t].todo = {}
  /\ arch' = [arch EXCEPT ![loc[t].owner].map[loc[t].cls] =
                [EntryOf(t) EXCEPT !.hasView = TRUE, !.view = EntryOf(t).features,
                                   !.viewBy = t]]
  /\ pc' = [pc EXCEPT ![t] = "notify"]
  /\ UNCHANGED <<own, ndesc, loc>>

\* if model_obj is not None: every feature object of the entry gets model_obj
GetNotify(t) ==
  /\ pc[t] = "notify"
  /\ arch' = IF loc[t].obj # "None"
             THEN [arch EXCEPT ![loc[t].owner].map[loc[t].cls] =
                     Notify(EntryOf(t), loc[t].obj)]
             ELSE arch
  /\ pc' = [pc EXCEPT ![t] = "return"]
  /\ UNCHANGED <<own, ndesc, loc>>

\* return self.map[model_cls]['architect']: KeyError when the entry has no view yet
GetReturn(t) ==
  /\ pc[t] = "return"
  /\ loc' = [loc EXCEPT ![t] =
               IF EntryOf(t).hasView
               THEN [@ EXCEPT !.ret = EntryOf(t).view, !.retBy = EntryOf(t).viewBy]
               ELSE [@ EXCEPT !.err = "KeyError"]]
  /\ pc' = [pc EXCEPT ![t] = "done"]
  /\ UNCHANGED <<own, arch, ndesc>>

\* The caller is finished with what it got.
GetFinish(t) ==
  /\ pc[t] = "done"
  /\ pc' = [pc EXCEPT ![t] = "idle"]
  /\ loc' = [loc EXCEPT ![t] = [NoLocals EXCEPT !.n = loc[t].n]]
  /\ UNCHANGED <<own, arch, ndesc>>

AllIdle == \A t \in Threads : pc[t] = "idle"

\* An install call made while no access is running.
InstallIdle ==
  \E model \in Classes, feature \in FeatureNames, options \in OptionSets :
    /\ ndesc < MaxGetDesc
    /\ AllIdle
    /\ Install(model, feature, options)
    /\ UNCHANGED <<pc, loc>>

BeginStep == \E t \in Threads, model \in Classes, obj \in Objs : GetBegin(t, model, obj)
CheckStep == \E t \in Threads : GetCheck(t)
InitStep == \E t \in Threads : GetInit(t)
BuildStep == \E t \in Threads : GetBuild(t)
ViewStep == \E t \in Threads : GetView(t)
NotifyStep == \E t \in Threads : GetNotify(t)
ReturnStep == \E t \in Threads : GetReturn(t)
FinishStep == \E t \in Threads : GetFinish(t)

NextGet ==
  \/ InstallIdle
  \/ BeginStep \/ CheckStep \/ InitStep \/ BuildStep \/ ViewStep
  \/ NotifyStep \/ ReturnStep \/ FinishStep

SpecGet == Init /\ [][NextGet]_vars

(***************************************************************************)
(* install and uninstall run by concurrent callers, one statement group at *)
(* a time                                                                  *)
(***************************************************************************)

\* The locals of a call: the decorator object (feature, options, features), the
\* model it is applied to, the frames of init_feature / deinit_feature (feature,
\* statement group, loop index), the exception, the features visited so far in
\* order, and the number of calls the thread has started.
NoCall == [kind |-> "none", cls |-> "Base", feature |-> "", options |-> {},
           features |-> {}, stack |-> <<>>, err |-> "ok", errName |-> "",
           walk |-> <<>>, n |-> 0]

Frame(feature) == [feature |-> feature, phase |-> "lookup", k |-> 1]

Top(c) == c.stack[Len(c.stack)]

SetTop(c, fr) == [c EXCEPT !.stack[Len(c.stack)] = fr]

InitCalls ==
  /\ own = ClassBody
  /\ arch = [c \in Classes |-> NoDesc]
  /\ ndesc = 0
  /\ pc = [t \in Threads |-> "idle"]
  /\ loc = [t \in Threads |-> NoCall]

\* The calls started so far by all threads.
RECURSIVE CallsOf(_, _)
CallsOf(l, T) ==
  IF T = {} THEN 0
  ELSE LET t == CHOOSE x \in T : TRUE IN l[t].n + CallsOf(l, T \ {t})

CallsMade == CallsOf(loc, Threads)

\* In frame fr of thread t, at statement group phase.
At(t, kind, phase) ==
  /\ pc[t] = "run"
  /\ loc[t].kind = kind
  /\ Top(loc[t]).phase = phase

\* The exception leaves the call.
Raise(c, err, name) == [c EXCEPT !.err = err, !.errName = name]

\* install(feature, **options)(model) is called: init_feature(self.feature, ...).
InstallBegin(t, model, feature, options) ==
  /\ pc[t] \in {"idle", "done"}
  /\ CallsMade < MaxCalls
  /\ pc' = [pc EXCEPT ![t] = "run"]
  /\ loc' = [loc EXCEPT ![t] = [NoCall EXCEPT !.kind = "install", !.cls = model,
                                              !.feature = feature, !.options = options,
                                              !.stack = <<Frame(feature)>>,
                                              !.n = loc[t].n + 1]]
  /\ UNCHANGED <<own, arch, ndesc>>

\* init_feature: features_registry[feature], or FeatureInstallError.
InitLookup(t) ==
  /\ At(t, "install", "lookup")
  /\ LET c == loc[t]
         feature == Top(c).feature
         c1 == [c EXCEPT !.walk = Append(c.walk, feature)]
     IN IF feature \notin DOMAIN registry
        THEN /\ loc' = [loc EXCEPT ![t] = Raise(c1, "FeatureInstallError", feature)]
             /\ pc' = [pc EXCEPT ![t] = "done"]
        ELSE /\ loc' = [loc EXCEPT ![t] = SetTop(c1, [Top(c) EXCEPT !.phase =
                          IF Len(registry[feature].decorate) = 0 THEN "record"
                          ELSE "decorate"])]
             /\ UNCHANGED pc
  /\ UNCHANGED <<own, arch, ndesc>>

\* init_feature: one pass of the loop over feature_cls.decorate.
InitDecorate(t) ==
  /\ At(t, "install", "decorate")
  /\ LET c == loc[t]
         fr == Top(c)
         st == DecorateOne(InstallState(own), fr.feature, c.cls, fr.k)
     IN IF st.err # "ok"
        THEN /\ loc' = [loc EXCEPT ![t] = Raise(c, st.err, st.errName)]
             /\ pc' = [pc EXCEPT ![t] = "done"]
             /\ UNCHANGED own
        ELSE /\ own' = st.own
             /\ loc' = [loc EXCEPT ![t] = SetTop(c,
                          IF fr.k = Len(registry[fr.feature].decorate)
                          THEN [fr EXCEPT !.phase = "record"]
                          ELSE [fr EXCEPT !.k = fr.k + 1])]
             /\ UNCHANGED pc
  /\ UNCHANGED <<arch, ndesc>>

\* init_feature: self.features[feature] = {...}
InitRecord(t) ==
  /\ At(t, "install", "record")
  /\ LET c == loc[t]
         fr == Top(c)
         rec == [name |-> fr.feature,
                 options |-> RecordedOptions(fr.feature, c.feature, c.options)]
     IN loc' = [loc EXCEPT ![t] =
                  SetTop([c EXCEPT !.features = PutRecord(c.features, rec)],
                         [fr EXCEPT !.phase = "deps", !.k = 1])]
  /\ UNCHANGED <<own, arch, ndesc, pc>>

\* WalkDependencies that skips a dependency the call has already recorded.
WalkDependencies_visited(c) ==
  LET fr == Top(c)
      deps == registry[fr.feature].dependencies
  IN IF fr.k > Len(deps)
     THEN [c EXCEPT !.stack = SubSeq(c.stack, 1, Len(c.stack) - 1)]
     ELSE IF deps[fr.k] \in {r.name : r \in c.features}
     THEN SetTop(c, [fr EXCEPT !.k = fr.k + 1])
     ELSE [c EXCEPT !.stack = Append(SetTop(c, [fr EXCEPT !.k = fr.k + 1]).stack,
                                     Frame(deps[fr.k]))]

\* One pass of "for dependency in ...dependencies: self.init_feature(dependency, ...)"
\* (or deinit_feature): the call for the next dependency is entered, or, after the
\* last one, the function returns to its caller.
WalkDependencies(c) ==
  LET fr == Top(c)
      deps == registry[fr.feature].dependencies
  IN IF fr.k > Len(deps)
     THEN [c EXCEPT !.stack = SubSeq(c.stack, 1, Len(c.stack) - 1)]
     ELSE [c EXCEPT !.stack = Append(SetTop(c, [fr EXCEPT !.k = fr.k + 1]).stack,
                                     Frame(deps[fr.k]))]

\* init_feature: the loop over the dependencies; when the outermost init_feature
\* returns, install.__call__ goes on to gather the installed features.
InitDeps(t) ==
  /\ At(t, "install", "deps")
  /\ LET c1 == WalkDependencies(loc[t])
     IN /\ loc' = [loc EXCEPT ![t] = c1]
        /\ pc' = [pc EXCEPT ![t] = IF c1.stack = <<>> THEN "gather" ELSE "run"]
  /\ UNCHANGED <<own, arch, ndesc>>

\* install.__call__: if hasattr(model, 'architect'): gather the features of the
\* namespace the call has not set itself.
InstallGather(t) ==
  /\ pc[t] = "gather"
  /\ LET c == loc[t]
     IN IF hasattr_architect(arch, c.cls)
        THEN LET ar1 == AccessArchitect(arch, c.cls, "None", t)
             IN /\ arch' = ar1
                /\ loc' = [loc EXCEPT ![t].features = GatherInstalled(ar1, c.cls, c.features)]
        ELSE UNCHANGED <<arch, loc>>
  /\ pc' = [pc EXCEPT ![t] = "assign"]
  /\ UNCHANGED <<own, ndesc>>

\* install.__call__: model.architect = Architect(self.features)
InstallAssign(t) ==
  /\ pc[t] = "assign"
  /\ arch' = [arch EXCEPT ![loc[t].cls] = NewArchitect(ndesc + 1, loc[t].features)]
  /\ ndesc' = ndesc + 1
  /\ pc' = [pc EXCEPT ![t] = "done"]
  /\ UNCHANGED <<own, loc>>

\* uninstall(feature)(model) is called: deinit_feature(self.feature, model).
UninstallBegin(t, model, feature) ==
  /\ pc[t] \in {"idle", "done"}
  /\ CallsMade < MaxCalls
  /\ pc' = [pc EXCEPT ![t] = "run"]
  /\ loc' = [loc EXCEPT ![t] = [NoCall EXCEPT !.kind = "uninstall", !.cls = model,
                                              !.feature = feature,
                                              !.stack = <<Frame(feature)>>,
                                              !.n = loc[t].n + 1]]
  /\ UNCHANGED <<own, arch, ndesc>>

\* deinit_feature: getattr(model.architect, feature), or FeatureUninstallError (or the
\* AttributeError of model.architect inside the except clause).
DeinitLookup(t) ==
  /\ At(t, "uninstall", "lookup")
  /\ LET c == loc[t]
         feature == Top(c).feature
         c1 == [c EXCEPT !.walk = Append(c.walk, feature)]
     IN IF ~hasattr_architect(arch, c.cls)
        THEN /\ loc' = [loc EXCEPT ![t] = Raise(c1, "AttributeError", "architect")]
             /\ pc' = [pc EXCEPT ![t] = "done"]
             /\ UNCHANGED arch
        ELSE LET ar1 == AccessArchitect(arch, c.cls, "None", t)
             IN /\ arch' = ar1
                /\ IF feature \notin ObjNames(ViewOf(ar1, c.cls))
                   THEN /\ loc' = [loc EXCEPT ![t] =
                                     Raise(c1, "FeatureUninstallError", feature)]
                        /\ pc' = [pc EXCEPT ![t] = "done"]
                   ELSE /\ loc' = [loc EXCEPT ![t] =
                                     SetTop(c1, [Top(c) EXCEPT !.phase = "restore"])]
                        /\ UNCHANGED pc
  /\ UNCHANGED <<own, ndesc>>

\* deinit_feature: inspect.getmembers and the loop that sets method.original.
DeinitRestore(t) ==
  /\ At(t, "uninstall", "restore")
  /\ own' = RestoreMethods(own, loc[t].cls)
  /\ loc' = [loc EXCEPT ![t] = SetTop(loc[t], [Top(loc[t]) EXCEPT !.phase = "delattr"])]
  /\ UNCHANGED <<arch, ndesc, pc>>

\* deinit_feature: delattr(model.architect, feature); AttributeError when another
\* caller has removed the attribute or replaced the descriptor in between.
DeinitDelattr(t) ==
  /\ At(t, "uninstall", "delattr")
  /\ LET c == loc[t]
         feature == Top(c).feature
         ar1 == AccessArchitect(arch, c.cls, "None", t)
     IN IF feature \notin ObjNames(ViewOf(ar1, c.cls))
        THEN /\ arch' = ar1
             /\ loc' = [loc EXCEPT ![t] = Raise(c, "AttributeError", feature)]
             /\ pc' = [pc EXCEPT ![t] = "done"]
        ELSE /\ arch' = DelFeature(ar1, c.cls, feature)
             /\ loc' = [loc EXCEPT ![t] =
                          SetTop(c, [Top(c) EXCEPT !.phase = "deps", !.k = 1])]
             /\ UNCHANGED pc
  /\ UNCHANGED <<own, ndesc>>

\* deinit_feature: the loop over feature_obj.dependencies; when the outermost
\* deinit_feature returns the call is over.
DeinitDeps(t) ==
  /\ At(t, "uninstall", "deps")
  /\ LET c1 == WalkDependencies(loc[t])
     IN /\ loc' = [loc EXCEPT ![t] = c1]
        /\ pc' = [pc EXCEPT ![t] = IF c1.stack = <<>> THEN "done" ELSE "run"]
  /\ UNCHANGED <<own, arch, ndesc>>

InstallBeginStep ==
  \E t \in Threads, model \in Classes, feature \in FeatureNames, options \in OptionSets :
    InstallBegin(t, model, feature, options)
InitLookupStep == \E t \in Threads : InitLookup(t)
InitDecorateStep == \E t \in Threads : InitDecorate(t)
InitRecordStep == \E t \in Threads : InitRecord(t)
InitDepsStep == \E t \in Threads : InitDeps(t)
InstallGatherStep == \E t \in Threads : InstallGather(t)
InstallAssignStep == \E t \in Threads : InstallAssign(t)
UninstallBeginStep ==
  \E t \in Threads, model \in Classes, feature \in FeatureNames :
    UninstallBegin(t, model, feature)
DeinitLookupStep == \E t \in Threads : DeinitLookup(t)
DeinitRestoreStep == \E t \in Threads : DeinitRestore(t)
DeinitDelattrStep == \E t \in Threads : DeinitDelattr(t)
DeinitDepsStep == \E t \in Threads : DeinitDeps(t)

\* A statement group of the call thread t is running.
Run(t) ==
  \/ InitLookup(t) \/ InitDecorate(t) \/ InitRecord(t) \/ InitDeps(t)
  \/ InstallGather(t) \/ InstallAssign(t)
  \/ DeinitLookup(t) \/ DeinitRestore(t) \/ DeinitDelattr(t) \/ DeinitDeps(t)

NextCalls ==
  \/ InstallBeginStep \/ InitLookupStep \/ InitDecorateStep \/ InitRecordStep
  \/ InitDepsStep \/ InstallGatherStep \/ InstallAssignStep
  \/ UninstallBeginStep \/ DeinitLookupStep \/ DeinitRestoreStep
  \/ DeinitDelattrStep \/ DeinitDepsStep

SpecCalls == InitCalls /\ [][NextCalls]_vars

\* One caller making its calls one after the other.
Caller == "t1"

WalkInstallBegin ==
  \E model \in Classes, feature \in FeatureNames, options \in OptionSets :
    InstallBegin(Caller, model, feature, options)
WalkUninstallBegin ==
  \E model \in Classes, feature \in FeatureNames : UninstallBegin(Caller, model, feature)

NextWalk ==
  \/ WalkInstallBegin \/ InitLookup(Caller) \/ InitDecorate(Caller) \/ InitRecord(Caller)
  \/ InitDeps(Caller) \/ InstallGather(Caller) \/ InstallAssign(Caller)
  \/ WalkUninstallBegin \/ DeinitLookup(Caller) \/ DeinitRestore(Caller)
  \/ DeinitDelattr(Caller) \/ DeinitDeps(Caller)

\* The caller that is inside a call goes on running it.
SpecWalk == InitCalls /\ [][NextWalk]_vars /\ WF_vars(Run(Caller))

(***************************************************************************)
(* Properties                                                              *)
(***************************************************************************)

\* The features reachable from a registered feature through the dependency lists.
RECURSIVE Closure(_)
Closure(feature) ==
  IF feature \notin DOMAIN registry THEN {}
  ELSE {feature} \cup
       UNION {Closure(registry[feature].dependencies[i]) :
                i \in 1..Len(registry[feature].dependencies)}

\* The names the view class holds once the class has accessed its namespace.
NamesOnAccess(ar, model) ==
  ObjNames(ViewOf(AccessArchitect(ar, model, "None", "main"), model))

\* No method visible on the class is a wrapper.
NoneDecorated(o, model) == \A name \in Methods : ~is_decorated(getattr(o, model, name))

\* C1: whenever install(F)(C) returns without an exception, the namespace of C holds F
\* and every feature reachable from F through the dependency lists.
C1_InstallClosure ==
  \A model \in Classes, feature \in FeatureNames, options \in OptionSets :
    LET r == InstallResult(own, arch, ndesc, model, feature, options)
    IN r.err = "ok" =>
         /\ Closure(feature) \subseteq Namespace(r.arch, model)
         /\ Closure(feature) \subseteq NamesOnAccess(r.arch, model)

\* C1 witness: F was installed on Base, whose namespace holds F and its dependencies.
C1_Witness ==
  /\ arch["Base"].id # 0
  /\ Closure("F") = {"F", "A", "D"}
  /\ Closure("F") \subseteq Namespace(arch, "Base")
  /\ arch["Base"].map["Base"].present

\* C2 as stated: on a class with no feature in its namespace, install(F) followed at
\* once by uninstall(F) leaves every slot the install set holding what it held before
\* the install, undecorated.
C2_Original ==
  \A model \in Classes, feature \in FeatureNames, options \in OptionSets :
    LET r1 == InstallResult(own, arch, ndesc, model, feature, options)
        r2 == UninstallResult(r1.own, r1.arch, model, feature)
    IN (Namespace(arch, model) = {} /\ r1.err = "ok") =>
         \A name \in r1.touched :
           /\ getattr(r2.own, model, name) = getattr(own, model, name)
           /\ ~is_decorated(getattr(r2.own, model, name))

\* C2 amended: the same, for a class with no feature in its namespace and no
\* decorated method visible on it (none left by a failed install, none inherited).
C2_InstallUninstallRestores ==
  \A model \in Classes, feature \in FeatureNames, options \in OptionSets :
    LET r1 == InstallResult(own, arch, ndesc, model, feature, options)
        r2 == UninstallResult(r1.own, r1.arch, model, feature)
    IN (Namespace(arch, model) = {} /\ NoneDecorated(own, model) /\ r1.err = "ok") =>
         /\ \A name \in r1.touched : is_decorated(getattr(r1.own, model, name))
         /\ \A name \in r1.touched :
              /\ getattr(r2.own, model, name) = getattr(own, model, name)
              /\ ~is_decorated(getattr(r2.own, model, name))

\* C2 witness: on Sub, which had nothing installed, G was installed and uninstalled:
\* the descriptor still records G, the view no longer holds it, and the three methods
\* G decorates are the pristine ones again.
C2_Witness ==
  /\ arch["Base"].id = 0
  /\ arch["Sub"].id # 0
  /\ {r.name : r \in arch["Sub"].features} = {"G"}
  /\ arch["Sub"].map["Sub"].present
  /\ Namespace(arch, "Sub") = {}
  /\ Slots(own, "Sub") = Slots(ClassBody, "Sub")

\* C3: on a class with no feature in its namespace, uninstall(F) after a successful
\* install(F) ends without an exception and leaves neither F nor any feature reachable
\* from F in the namespace, whatever the (acyclic) dependency graph below F.
C3_UninstallAfterInstall ==
  \A model \in Classes, feature \in FeatureNames, options \in OptionSets :
    LET r1 == InstallResult(own, arch, ndesc, model, feature, options)
        r2 == UninstallResult(r1.own, r1.arch, model, feature)
    IN (Namespace(arch, model) = {} /\ r1.err = "ok") =>
         /\ r2.err = "ok"
         /\ Namespace(r2.arch, model) \cap Closure(feature) = {}

\* C4: a successful install on C removes no feature name from the namespace of C.
C4_InstallKeepsInstalled ==
  \A model \in Classes, feature \in FeatureNames, options \in OptionSets :
    LET r == InstallResult(own, arch, ndesc, model, feature, options)
    IN r.err = "ok" =>
         /\ Namespace(arch, model) \subseteq Namespace(r.arch, model)
         /\ Namespace(arch, model) \subseteq NamesOnAccess(r.arch, model)

\* C4 witness: two installs on Sub, D and then G, and the namespace holds both.
C4_Witness ==
  /\ arch["Base"].id = 0
  /\ arch["Sub"].id = 2
  /\ Namespace(arch, "Sub") = {"D", "G"}
  /\ getattr(own, "Sub", "m1").wraps = <<"G">>

\* C5: install(G)(Sub) leaves the feature names of Base's namespace and Base's own
\* methods as they were; after a successful call Sub's namespace holds G and the
\* names Sub's namespace held before (those it inherited from Base).
C5_SubclassInstallIsolated ==
  \A feature \in FeatureNames, options \in OptionSets :
    LET r == InstallResult(own, arch, ndesc, "Sub", feature, options)
    IN /\ Namespace(r.arch, "Base") = Namespace(arch, "Base")
       /\ r.own["Base"] = own["Base"]
       /\ r.err = "ok" =>
            /\ feature \in Namespace(r.arch, "Sub")
            /\ Namespace(arch, "Sub") \subseteq Namespace(r.arch, "Sub")

\* C5 witness: D is installed on Base, then G on Sub: Base still has only D and its
\* own m1 wrapped by D, Sub has D and G and its own m1 wrapped by G.
C5_Witness ==
  /\ arch["Base"].id = 1
  /\ arch["Sub"].id = 2
  /\ Namespace(arch, "Base") = {"D"}
  /\ Namespace(arch, "Sub") = {"D", "G"}
  /\ own["Base"]["m1"].wraps = <<"D">>
  /\ own["Sub"]["m1"] = [fn |-> <<"Base", "m1">>, wraps |-> <<"G">>]

\* C6: uninstall(X)(C) with X not in the namespace of C ends with FeatureUninstallError
\* listing exactly the names in the namespace of C, in every reachable state of C.
C6_UninstallUnknownLists ==
  \A model \in Classes, feature \in FeatureNames :
    LET r == UninstallResult(own, arch, model, feature)
    IN feature \notin Namespace(arch, model) =>
         /\ r.err = "FeatureUninstallError"
         /\ r.allowed = Namespace(arch, model)

\* C7: whenever uninstall(F)(C) ends with an exception, the methods visible on C and
\* the namespace of C are as they were before the call.
C7_FailedUninstallChangesNothing ==
  \A model \in Classes, feature \in FeatureNames :
    LET r == UninstallResult(own, arch, model, feature)
    IN r.err # "ok" =>
         /\ Slots(r.own, model) = Slots(own, model)
         /\ Namespace(r.arch, model) = Namespace(arch, model)

\* C8: when install(F)(C) ends with an exception, it is MethodAutoDecorateError or
\* FeatureInstallError; the slots the call set are still decorated; no method
\* listed after the missing one carries the failing feature's wrapper; and the
\* descriptors, hence the namespace of every class, are as before the call.
C8_FailedInstallPartial ==
  \A model \in Classes, feature \in FeatureNames, options \in OptionSets :
    LET r == InstallResult(own, arch, ndesc, model, feature, options)
    IN r.err # "ok" =>
         /\ r.err \in {"MethodAutoDecorateError", "FeatureInstallError"}
         /\ \A name \in r.touched : is_decorated(getattr(r.own, model, name))
         /\ \A name \in Methods \ r.touched : r.own[model][name] = own[model][name]
         /\ r.err = "MethodAutoDecorateError" =>
              LET decorate == registry[r.errFeature].decorate
              IN /\ getattr(own, model, decorate[r.errIdx]) = NoImpl
                 /\ \A j \in 1..Len(decorate) :
                      /\ j < r.errIdx => decorate[j] \in r.touched
                      /\ j > r.errIdx =>
                           LET slot == getattr(r.own, model, decorate[j])
                           IN ~(is_decorated(slot)
                                /\ slot.wraps[Len(slot.wraps)] = r.errFeature)
         /\ r.err = "FeatureInstallError" => r.errName \notin DOMAIN registry
         /\ r.arch = arch
         /\ \A c \in Classes : Namespace(r.arch, c) = Namespace(arch, c)

\* C8 witness: install(G)(Base) failed on m3 after decorating m2, and install(H)(Base)
\* failed on its unknown dependency after H and D decorated m1: Base has the wrappers
\* and no namespace.
C8_Witness ==
  /\ arch["Base"].id = 0
  /\ own["Base"]["m2"].wraps = <<"G">>
  /\ own["Base"]["m1"].wraps = <<"D">>

\* C9: once the entry of C is built, install and uninstall calls on C keep the feature
\* objects of the entry: every feature object the namespace of C held before the call,
\* and still names after it, is the object an access returns after the call.
C9_EntryUpdatedInPlace ==
  \A model \in Classes, feature \in FeatureNames, options \in OptionSets :
    LET o == Owner(arch, model)
        r == InstallResult(own, arch, ndesc, model, feature, options)
        u == UninstallResult(own, arch, model, feature)
        viewI == ViewOf(AccessArchitect(r.arch, model, "None", "main"), model)
        viewU == ViewOf(AccessArchitect(u.arch, model, "None", "main"), model)
    IN (o # "none" /\ arch[o].map[model].present) =>
         /\ r.err = "ok" =>
              \A i \in ViewOf(arch, model) : i.name \in ObjNames(viewI) => i \in viewI
         /\ \A i \in ViewOf(arch, model) : i.name \in ObjNames(viewU) => i \in viewU

(***************************************************************************)
(* Properties of the concurrent accesses (SpecGet)                         *)
(***************************************************************************)

\* C10: concurrent first accesses to the namespace of one class all end without an
\* exception and return the same view, which holds every installed feature.
C10_ConcurrentFirstAccess ==
  \A t \in Threads :
    pc[t] = "done" =>
      /\ loc[t].err = "ok"
      /\ ObjNames(loc[t].ret) = {r.name : r \in arch[loc[t].owner].features}
      /\ \A u \in Threads :
           (pc[u] = "done" /\ loc[u].cls = loc[t].cls) =>
             /\ loc[u].ret = loc[t].ret
             /\ loc[u].retBy = loc[t].retBy

\* Thread t holds feature objects it got through an instance, and each of them has
\* that instance as its model_obj.
HoldsOwnObjects(t) ==
  /\ pc[t] = "done"
  /\ loc[t].err = "ok"
  /\ loc[t].obj # "None"
  /\ loc[t].ret # {}
  /\ \A i \in loc[t].ret :
       i \in DOMAIN EntryOf(t).model_obj /\ EntryOf(t).model_obj[i] = loc[t].obj

\* C11: the feature objects an instance got through instance.architect keep that
\* instance as their model_obj for as long as the caller holds them: no step of
\* another caller's access changes the model_obj of an object this caller holds.
C11_BoundObjectKeepsInstance ==
  [][\A t \in Threads :
       (HoldsOwnObjects(t) /\ pc'[t] = "done") =>
         \A i \in loc[t].ret :
           i \in DOMAIN EntryOf(t)'.model_obj => EntryOf(t)'.model_obj[i] = loc[t].obj]_vars

\* The state install(f)(model) followed by install(g)(model) gives, from the state
\* after construction.
InstallBoth(model, f, fopts, g, gopts) ==
  LET r1 == InstallResult(ClassBody, [c \in Classes |-> NoDesc], 0, model, f, fopts)
  IN InstallResult(r1.own, r1.arch, r1.ndesc, model, g, gopts)

\* C12: when two threads have each run one successful install, of different features
\* on the same class, the methods of the classes and the features of the namespace
\* are those one of the two sequential orders gives, and both requested features are
\* in the class's namespace.
C12_ConcurrentInstallsSerialize ==
  \A t \in Threads, u \in Threads :
    ( /\ t # u
      /\ pc[t] = "done" /\ pc[u] = "done"
      /\ loc[t].kind = "install" /\ loc[u].kind = "install"
      /\ loc[t].err = "ok" /\ loc[u].err = "ok"
      /\ loc[t].n = 1 /\ loc[u].n = 1
      /\ loc[t].cls = loc[u].cls
      /\ loc[t].feature # loc[u].feature ) =>
      /\ {loc[t].feature, loc[u].feature} \subseteq Namespace(arch, loc[t].cls)
      /\ \E x \in {t, u} :
           LET y == CHOOSE z \in {t, u} : z # x
               r == InstallBoth(loc[t].cls, loc[x].feature, loc[x].options,
                                loc[y].feature, loc[y].options)
           IN /\ own = r.own
              /\ Namespace(arch, loc[t].cls) = Namespace(r.arch, loc[t].cls)

(***************************************************************************)
(* Properties of interception, order, restoration and options              *)
(***************************************************************************)

\* C13: in every reachable state, a decorated method of a class, own or inherited,
\* is one wrapper around an undecorated original, and that original is the function
\* the class had for that name before anything was installed.
C13_WrappersNeverNest ==
  \A c \in Classes, name \in Methods :
    /\ LET m == getattr(own, c, name)
       IN is_decorated(m) =>
            /\ ~is_decorated(original_of(m))
            /\ original_of(m) = getattr(ClassBody, c, name)
            /\ m.wraps[1] \in DOMAIN registry
    /\ ~is_decorated(getattr(own, c, name)) => getattr(own, c, name) = getattr(ClassBody, c, name)

\* C13 witness: F then G were installed on Sub, so m1 and m2 were each decorated three
\* times, and Sub's methods are G's wrappers around the original functions.
C13_Witness ==
  /\ arch["Sub"].id = 2
  /\ arch["Base"].id = 0
  /\ Namespace(arch, "Sub") = {"F", "A", "D", "G"}
  /\ own["Sub"]["m1"] = [fn |-> <<"Base", "m1">>, wraps |-> <<"G">>]
  /\ own["Sub"]["m2"] = [fn |-> <<"Base", "m2">>, wraps |-> <<"G">>]

\* The features init_feature visits for a feature, in order: the feature, then each
\* of its dependencies in the order declared.
RECURSIVE PreOrder(_)
RECURSIVE PreOrderOfList(_, _)
PreOrder(feature) ==
  IF feature \notin DOMAIN registry THEN <<feature>>
  ELSE <<feature>> \o PreOrderOfList(registry[feature].dependencies, 1)

PreOrderOfList(deps, i) ==
  IF i > Len(deps) THEN <<>> ELSE PreOrder(deps[i]) \o PreOrderOfList(deps, i + 1)

\* Feature f declares the method name in its decorate list.
Declares(f, name) ==
  f \in DOMAIN registry /\ \E k \in 1..Len(registry[f].decorate) : registry[f].decorate[k] = name

\* C14: after a successful install(F)(C), every method some visited feature declares
\* carries the wrapper of the last feature declaring it in the pre-order walk from F
\* (the feature first, then its dependencies in declared order), around the original.
C14_LastInPreOrderWins ==
  \A model \in Classes, feature \in FeatureNames, options \in OptionSets :
    LET r == InstallResult(own, arch, ndesc, model, feature, options)
        order == PreOrder(feature)
    IN r.err = "ok" =>
         \A name \in Methods :
           LET idx == {k \in 1..Len(order) : Declares(order[k], name)}
           IN IF idx = {} THEN getattr(r.own, model, name) = getattr(own, model, name)
              ELSE LET last == CHOOSE k \in idx : \A q \in idx : q <= k
                   IN /\ getattr(r.own, model, name).wraps = <<order[last]>>
                      /\ original_of(getattr(r.own, model, name))
                           = getattr(ClassBody, model, name)

\* C14 witness: F was installed on Base: F and its dependency D both declare m1, and
\* m1 carries D's wrapper; m2 carries A's.
C14_Witness ==
  /\ arch["Base"].id = 1
  /\ {r.name : r \in arch["Base"].features} = {"F", "A", "D"}
  /\ PreOrder("F") = <<"F", "A", "D", "D">>
  /\ own["Base"]["m1"].wraps = <<"D">>
  /\ own["Base"]["m2"].wraps = <<"A">>

\* C15: after a successful uninstall(F)(C) no method visible on C is decorated, also
\* the methods only other features, still in the namespace, had decorated.
C15_UninstallRestoresAll ==
  \A model \in Classes, feature \in FeatureNames :
    LET r == UninstallResult(own, arch, model, feature)
    IN r.err = "ok" =>
         /\ NoneDecorated(r.own, model)
         /\ \A name \in Methods : getattr(r.own, model, name) = getattr(ClassBody, model, name)
         /\ feature \notin Namespace(r.arch, model)

\* C15 witness: D is installed on Base and Sub sees it through Base's descriptor;
\* uninstall(D)(Sub) took D out of Sub's view and gave Sub an undecorated m1 of its
\* own, while Base keeps D and its wrapper.
C15_Witness ==
  /\ arch["Base"].id = 1
  /\ arch["Sub"].id = 0
  /\ Namespace(arch, "Base") = {"D"}
  /\ arch["Base"].map["Sub"].present
  /\ Namespace(arch, "Sub") = {}
  /\ own["Base"]["m1"].wraps = <<"D">>
  /\ own["Sub"]["m1"] = Pristine("Base", "m1")

\* C16: after a successful uninstall(F)(Base) the descriptor of Base no longer records
\* F, and a subclass that reads the namespace through it for the first time afterwards
\* does not get F.
C16_UninstallDropsRecord ==
  \A feature \in FeatureNames :
    LET r == UninstallResult(own, arch, "Base", feature)
    IN (r.err = "ok" /\ Owner(r.arch, "Sub") = "Base"
          /\ ~r.arch["Base"].map["Sub"].present) =>
         /\ feature \notin {q.name : q \in r.arch["Base"].features}
         /\ feature \notin NamesOnAccess(r.arch, "Sub")

\* C17: a second install(F, **options)(C) right after a successful first one leaves
\* the methods of every class and the records of the descriptor as the first left
\* them: one wrapper around the original on each method, each feature name once.
C17_InstallTwice ==
  \A model \in Classes, feature \in FeatureNames, options \in OptionSets :
    LET r1 == InstallResult(own, arch, ndesc, model, feature, options)
        r2 == InstallResult(r1.own, r1.arch, r1.ndesc, model, feature, options)
    IN r1.err = "ok" =>
         /\ r2.err = "ok"
         /\ r2.own = r1.own
         /\ \A name \in r2.touched : Len(getattr(r2.own, model, name).wraps) = 1
         /\ r2.arch[model].features = r1.arch[model].features
         /\ Namespace(r2.arch, model) = Namespace(r1.arch, model)
         /\ \A c \in {model} :
              /\ Cardinality(r1.arch[c].features)
                   = Cardinality({q.name : q \in r1.arch[c].features})
              /\ Cardinality(r2.arch[c].features)
                   = Cardinality({q.name : q \in r2.arch[c].features})
              /\ Cardinality(ViewOf(AccessArchitect(r2.arch, c, "None", "main"), c))
                   = Cardinality(Namespace(r2.arch, c))

\* C17 witness: D was installed twice on Base: one record, one wrapper.
C17_Witness ==
  /\ arch["Base"].id = 2
  /\ arch["Sub"].id = 0
  /\ arch["Base"].features = {[name |-> "D", options |-> {"db", "type"}]}
  /\ own["Base"]["m1"] = [fn |-> <<"Base", "m1">>, wraps |-> <<"D">>]

\* The keyword options an install call may be given.
CallOptions == SUBSET {"db", "type"}

\* C18: a successful install(F, **options)(C) records F with the options of the call
\* and every other feature it visits with the 'db' option of the call alone (nothing
\* when the call has no 'db').
C18_RecordedOptions ==
  \A model \in Classes, feature \in FeatureNames, options \in CallOptions :
    LET r == InstallResult(own, arch, ndesc, model, feature, options)
        recs == r.arch[model].features
    IN r.err = "ok" =>
         /\ [name |-> feature, options |-> options] \in recs
         /\ \A d \in Closure(feature) \ {feature} :
              /\ [name |-> d, options |-> options \cap {"db"}] \in recs
              /\ \A q \in recs : q.name = d => q.options \subseteq {"db"}

\* C18 witness: F was installed on Base with db and type: F has both, A and D only db.
C18_Witness ==
  /\ arch["Base"].id # 0
  /\ arch["Base"].features = {[name |-> "F", options |-> {"db", "type"}],
                              [name |-> "A", options |-> {"db"}],
                              [name |-> "D", options |-> {"db"}]}

\* Thread t is inside an install or uninstall call.
InCall(t) == pc[t] \in {"run", "gather", "assign"}

\* C19: every install and uninstall call that has started ends, and a call that ends
\* without an exception has entered init_feature (deinit_feature) once for every
\* dependency path from the requested feature, in pre-order: a feature two paths
\* lead to is visited twice.
C19_WalkTerminates ==
  /\ \A t \in Threads : InCall(t) ~> (pc[t] = "done")
  /\ [](\A t \in Threads :
          (pc[t] = "done" /\ loc[t].err = "ok") => loc[t].walk = PreOrder(loc[t].feature))

\* C19 witness: after install('F') on Base, which left F, A and D in the namespace,
\* uninstall('A') on Base has ended after visiting A and D.
C19_Witness ==
  /\ pc[Caller] = "done" /\ loc[Caller].kind = "uninstall" /\ loc[Caller].err = "ok"
  /\ loc[Caller].cls = "Base" /\ loc[Caller].walk = <<"A", "D">>
  /\ Namespace(arch, "Base") = {"F"}
  /\ PreOrder("F") = <<"F", "A", "D", "D">>

====
